---- MODULE Spec2Model ----
(***************************************************************************)
(* Model of tripleoclient/v1/tripleo_deploy.py: the "Deploy" command that  *)
(* launches an ephemeral heat, deploys the templates, runs the ansible     *)
(* phases and finalizes (artifact tarball, cleanup, stack update mark).    *)
(*                                                                         *)
(* One run of the command is one process; the stack update mark files and  *)
(* the rendered-template directory survive from one run to the next.       *)
(***************************************************************************)
EXTENDS Integers, Sequences, FiniteSets, TLC

\* Largest exit code an ansible-playbook invocation returns in the model.
MaxExitCode == 1

ExitCodes == 0..MaxExitCode

\* Values of --stack used by the runs.
Names == {"standalone", "undercloud"}

\* Terminal statuses event_utils.poll_for_events can return.
Statuses == {"CREATE_COMPLETE", "CREATE_FAILED", "UPDATE_COMPLETE"}

\* parsed_args of one run.
ArgSpace ==
  [stack : Names, force_stack_update : BOOLEAN, output_only : BOOLEAN,
   upgrade : BOOLEAN, cleanup : BOOLEAN, standalone : BOOLEAN,
   yes : BOOLEAN, local_ip : BOOLEAN]

\* heat_pid = None (also what the forked child sees: os.fork() returned 0).
NoPid == 0

\* The pid os.fork() returns in the parent.
ChildPid == 1

VARIABLES
  marks,              \* stack names whose update mark file exists
  tht_render,         \* the rendered-template directory exists on disk
  tmp_ansible_dir,    \* this run's undercloud-ansible-* directory exists
  args,               \* parsed_args
  pc,                 \* position of the parent process
  rc,                 \* local rc of _standalone_deploy
  heat_pid,           \* self.heat_pid in the parent
  stack_update_mark,  \* self.stack_update_mark: "None" or the stack name
  stack_action,       \* self.stack_action
  exc,                \* exception in flight in _standalone_deploy
  outcome,            \* how take_action ended, "running" before
  child,              \* position of the forked heat child
  obs,                \* what the run did so far
  cwd,                \* working directory of the process
  templates,          \* parsed_args.templates
  environment_files,  \* parsed_args.environment_files
  hieradata_override, \* parsed_args.hieradata_override: "none" or its format
  fs,                 \* files of the rendered-template directory
  user_environments,  \* result of _normalize_user_templates
  environments,       \* the list _setup_heat_environments builds
  cpc,                \* position inside _setup_heat_environments
  cerr,               \* what _setup_heat_environments raised
  pw_file,            \* tripleo-undercloud-passwords.yaml: "absent" or mapping
  undercloud_pw_file, \* undercloud-passwords.conf: "absent" or [auth] items
  pw_mode,            \* permission bits of the yaml file
  undercloud_pw_mode, \* permission bits of the conf file
  passwords,          \* the passwords argument of the call
  spc,                \* position inside _update_passwords_env
  merges,             \* what the calls of _update_passwords_env returned
  pargs,              \* parsed_args of each of two concurrent commands
  ppc,                \* position of each of the two commands
  trees,              \* per output directory: whose templates it holds
  pwfiles,            \* per output directory: who wrote the password files
  CONF,               \* the undercloud configuration preflight reads
  vpc,                \* position inside undercloud_preflight.check
  validated,          \* the validators check has called, in order
  exit_status,        \* how check ended
  parsed_args,        \* parsed_args of UpdatePrepare.take_action
  upc,                \* position inside UpdatePrepare.take_action
  calls,              \* the calls UpdatePrepare.take_action made, in order
  uexc                \* what UpdatePrepare.take_action raised

\* The state of one run of the command.
run == <<marks, tht_render, tmp_ansible_dir, args, pc, rc, heat_pid,
         stack_update_mark, stack_action, exc, outcome, child, obs>>

\* The state of _setup_heat_environments, followed step by step.
composerVars == <<cwd, templates, environment_files, hieradata_override, fs,
                  user_environments, environments, cpc, cerr>>

\* The state of _update_passwords_env and the two password files.
secretVars == <<pw_file, undercloud_pw_file, pw_mode, undercloud_pw_mode,
                passwords, spc, merges>>

\* Two commands that run at the same time.
pairVars == <<pargs, ppc, trees, pwfiles>>

\* The state of undercloud_preflight.check.
preflightVars == <<CONF, vpc, validated, exit_status>>

\* The state of UpdatePrepare.take_action.
updateVars == <<parsed_args, upc, calls, uexc>>

laterVars == <<pairVars, preflightVars, updateVars>>

\* What the actions of a run leave alone.
elsewhere == <<composerVars, secretVars, laterVars>>

vars == <<run, composerVars, laterVars, secretVars, laterVars>>

disk == <<marks, tht_render, tmp_ansible_dir>>

NoObs ==
  [markAtStart |-> FALSE, inTry |-> FALSE, stageRaised |-> FALSE,
   launched |-> FALSE, ready |-> FALSE, dropin |-> "none", submitted |-> 0,
   status |-> "none", downloaded |-> FALSE, kills |-> 0,
   upgrade |-> "notrun", deploy |-> "notrun", prepared |-> FALSE,
   archived |-> FALSE, archiveFailed |-> FALSE, cleanupFailed |-> FALSE,
   finalized |-> FALSE, markWritten |-> FALSE, markRemoved |-> FALSE,
   successBanner |-> FALSE, failureBanner |-> FALSE,
   childMarkWritten |-> FALSE, childMarkRemoved |-> FALSE,
   staleCleared |-> FALSE, waited |-> FALSE, timedOut |-> FALSE,
   stack_id |-> FALSE, polled |-> FALSE, deleted |-> FALSE,
   childError |-> "none", childArchived |-> FALSE, childDeleted |-> FALSE,
   templatesMissing |-> FALSE, process_rc |-> -1, cancelled |-> FALSE]

\* ---------------------------------------------------------------------
\* Paths.  A path is a string of characters, written as a sequence of
\* one-character strings, so that startswith, "in" and replace act on
\* characters as they do in the code.
\* ---------------------------------------------------------------------

Slash == <<"/">>

\* str.startswith
startswith(s, prefix) ==
  Len(prefix) <= Len(s) /\ SubSeq(s, 1, Len(prefix)) = prefix

\* The "in" operator on two strings.
contains(sub, s) ==
  \E i \in 1..(Len(s) - Len(sub) + 1) : SubSeq(s, i, i + Len(sub) - 1) = sub

\* str.replace: every occurrence, from the left.
RECURSIVE replace(_, _, _)
replace(s, old, new) ==
  IF s = <<>> THEN <<>>
  ELSE IF startswith(s, old)
       THEN new \o replace(SubSeq(s, Len(old) + 1, Len(s)), old, new)
       ELSE <<Head(s)>> \o replace(Tail(s), old, new)

\* os.path.abspath for the paths of the model (no "." or ".." parts and no
\* doubled slash): a relative path is joined to the working directory and a
\* trailing slash is dropped.
abspath(dir, path) ==
  LET full == IF startswith(path, Slash) THEN path ELSE dir \o Slash \o path
  IN  IF Len(full) > 1 /\ full[Len(full)] = "/"
      THEN SubSeq(full, 1, Len(full) - 1) ELSE full

\* os.path.basename: what follows the last slash.
RECURSIVE basename(_)
basename(path) ==
  IF path = <<>> \/ path[Len(path)] = "/" THEN <<>>
  ELSE Append(basename(SubSeq(path, 1, Len(path) - 1)), path[Len(path)])

\* os.path.join of a directory and one more part.
join(dir, part) ==
  IF startswith(part, Slash) THEN part
  ELSE IF dir[Len(dir)] = "/" THEN dir \o part ELSE dir \o Slash \o part

\* The directories of the model: the t-h-t checkout given as --templates,
\* the output directory, the rendered-template directory inside it
\* (line 175), and two directories that belong to neither.
UserTht == <<"/", "t">>
OutputDir == <<"/", "o">>
ThtRender == join(OutputDir, <<"w">>)
HomeDir == <<"/", "h">>
OtherDir == <<"/", "g">>

\* File names written by _setup_heat_environments, one character each:
\* tripleo-undercloud-passwords.yaml, tripleoclient-hosts-portmaps.yaml,
\* tripleo-hieradata-override.yaml and <stack>-stack-vstate-dropin.yaml.
PasswordsName == <<"p">>
MapsName == <<"m">>
HieraName == <<"y">>
DropinName == <<"v">>

\* Files of the t-h-t checkout: one at its root, the two static environments
\* of lines 526-535, one more environment and the plan environment file.
TemplateFiles ==
  {<<"r">>, <<"e", "/", "c">>, <<"e", "/", "n">>, <<"e", "/", "a">>,
   <<"k">>}

\* Override files a caller can name with -e.
EnvPaths ==
  {join(UserTht, <<"e", "/", "a">>),   \* in the checkout, absolute
   <<"e", "/", "a">>,                  \* relative to the working directory
   join(ThtRender, <<"r">>),           \* already in the rendered directory
   join(HomeDir, <<"a">>),             \* outside of both
   join(OtherDir, <<"a">>),            \* outside, the same base name
   join(HomeDir, <<"r">>),             \* outside, named as a template file
   join(HomeDir, PasswordsName),       \* outside, named as a generated file
   join(HomeDir, MapsName),
   join(HomeDir, HieraName),
   join(HomeDir, DropinName)}

\* Longest list of -e options in the model.
MaxEnvFiles == 2

EnvFileLists ==
  UNION {[1..n -> EnvPaths] : n \in 0..MaxEnvFiles}

\* Content of a file of the rendered-template directory: where it came from.
FromTemplates == [origin |-> "templates", src |-> <<>>]
FromPreprocessor == [origin |-> "preprocessor", src |-> <<>>]
Generated == [origin |-> "generated", src |-> <<>>]
CopyOf(path) == [origin |-> "caller", src |-> path]

NoFiles == [path \in {} |-> FromTemplates]

\* shutil.copytree of the checkout (line 200).
CopiedTree == [path \in {join(ThtRender, f) : f \in TemplateFiles}
                 |-> FromTemplates]

\* os.path.exists for a file of the rendered-template directory.
path_exists(files, path) == path \in DOMAIN files

\* open(path, 'w') and shutil.copy: the file is created or replaced.
write_file(files, path, content) ==
  [q \in DOMAIN files \cup {path} |->
     IF q = path THEN content ELSE files[q]]

\* No composition is being followed.
ComposerOff ==
  /\ cwd = <<>>
  /\ templates = <<>>
  /\ environment_files = <<>>
  /\ hieradata_override = "none"
  /\ fs = NoFiles
  /\ user_environments = <<>>
  /\ environments = <<>>
  /\ cpc = "off"
  /\ cerr = "none"

\* ---------------------------------------------------------------------
\* Passwords.  A mapping gives every key a value or Unset; a value records
\* where it came from, so that two sources never agree by accident.
\* ---------------------------------------------------------------------

\* Heat parameters of the model.  The last one is unknown to the generator.
ParamKeys ==
  {"RabbitPassword", "RpcPassword", "MysqlRootPassword", "RabbitCookie",
   "ExtraPassword"}

\* Option names of the [auth] section of undercloud-passwords.conf.
LegacyKeys ==
  {"undercloud_rabbit_password", "undercloud_rpc_password",
   "undercloud_db_password", "undercloud_mysql_root_password",
   "undercloud_rabbit_cookie", "undercloud_extra_password"}

Unset == [from |-> "unset", key |-> "", call |-> 0]

\* A value read from a file or given by the caller.
Value(source, k) == [from |-> source, key |-> k, call |-> 0]

\* A value made up by the n-th call of the generator.
Fresh(k, n) == [from |-> "generated", key |-> k, call |-> n]

IsSet(v) == v # Unset

NoParams == [k \in ParamKeys |-> Unset]

NoOptions == [k \in LegacyKeys |-> Unset]

\* Permission bits a file can have; open(..., 'w') creates a file with the
\* bits the umask leaves and keeps those of a file that exists.
Modes == {"0600", "0644"}

\* Lines 242-267: the heat parameter an [auth] option is stored under.  The
\* last branch capitalizes the parts that follow "undercloud_".
LegacyToParam(k) ==
  CASE k = "undercloud_db_password" -> "MysqlRootPassword"
    [] k = "undercloud_rabbit_password" -> "RabbitPassword"
    [] k = "undercloud_rabbit_cookie" -> "RabbitCookie"
    [] k = "undercloud_rpc_password" -> "RpcPassword"
    [] k = "undercloud_mysql_root_password" -> "MysqlRootPassword"
    [] k = "undercloud_extra_password" -> "ExtraPassword"

\* Line 299: the parameters that go into the conf file.
IsSecretName(p) ==
  p \in {"RabbitPassword", "RpcPassword", "MysqlRootPassword",
         "ExtraPassword"}

\* Lines 302-305: camel case to "undercloud_" and underscores.
ParamToLegacy(p) ==
  CASE p = "RabbitPassword" -> "undercloud_rabbit_password"
    [] p = "RpcPassword" -> "undercloud_rpc_password"
    [] p = "MysqlRootPassword" -> "undercloud_mysql_root_password"
    [] p = "ExtraPassword" -> "undercloud_extra_password"

\* Most calls of _update_passwords_env followed in one behaviour.
MaxMerges == 2

\* No call of _update_passwords_env is being followed.
SecretsOff ==
  /\ pw_file = NoParams
  /\ undercloud_pw_file = NoOptions
  /\ pw_mode = "absent"
  /\ undercloud_pw_mode = "absent"
  /\ passwords = NoParams
  /\ spc = "off"
  /\ merges = <<>>

\* The two commands of the pair.
Runs == {1, 2}

\* No command of the pair.
NoRun == 0

PairOff ==
  /\ pargs = <<>>
  /\ ppc = <<>>
  /\ trees = <<>>
  /\ pwfiles = <<>>

PreflightOff ==
  /\ CONF = <<>>
  /\ vpc = "off"
  /\ validated = <<>>
  /\ exit_status = "none"

UpdateOff ==
  /\ parsed_args = <<>>
  /\ upc = "off"
  /\ calls = <<>>
  /\ uexc = "none"

DefaultArgs ==
  [stack |-> "standalone", force_stack_update |-> FALSE,
   output_only |-> FALSE, upgrade |-> FALSE, cleanup |-> FALSE,
   standalone |-> FALSE, yes |-> FALSE, local_ip |-> FALSE]

\* No command has been started.
RunIdle ==
  /\ marks = {}
  /\ tht_render = FALSE
  /\ tmp_ansible_dir = FALSE
  /\ args = DefaultArgs
  /\ pc = "idle"
  /\ rc = 1
  /\ heat_pid = NoPid
  /\ stack_update_mark = "None"
  /\ stack_action = "CREATE"
  /\ exc = "none"
  /\ outcome = "running"
  /\ child = "none"
  /\ obs = NoObs

Init ==
  /\ RunIdle
  /\ ComposerOff
  /\ SecretsOff
  /\ PairOff
  /\ PreflightOff
  /\ UpdateOff

\* A new process is started with some command line.
Start ==
  /\ pc \in {"idle", "done"}
  /\ \E a \in ArgSpace : args' = a
  /\ pc' = "confirm"
  /\ rc' = 1
  /\ heat_pid' = NoPid
  /\ stack_update_mark' = "None"
  /\ stack_action' = "CREATE"
  /\ exc' = "none"
  /\ outcome' = "running"
  /\ child' = "none"
  /\ tmp_ansible_dir' = FALSE
  /\ obs' = [NoObs EXCEPT !.markAtStart = args'.stack \in marks]
  /\ UNCHANGED <<elsewhere,
                 marks, tht_render>>

\* What the user does at the prompt: an answer that starts with y, any other
\* answer, ctrl-c (KeyboardInterrupt) or ctrl-d (EOFError).
Answers == {"y", "n", "ctrl-c", "ctrl-d"}

\* Confirm asking only after the rendered-template directory was cleared.
Confirm_ClearsFirst ==
  /\ pc = "confirm"
  /\ \E isatty \in BOOLEAN, answer \in Answers :
       IF args.upgrade /\ ~args.yes /\ isatty /\ answer # "y"
       THEN /\ pc' = "done"
            /\ outcome' = "returned"
            /\ tht_render' = FALSE
            /\ obs' = [obs EXCEPT !.cancelled = TRUE, !.staleCleared = TRUE]
       ELSE /\ pc' = "dispatch"
            /\ UNCHANGED <<outcome, obs, tht_render>>
  /\ UNCHANGED <<elsewhere,
                 marks, tmp_ansible_dir, args, rc, heat_pid,
                 stack_update_mark, stack_action, exc, child>>

\* take_action, lines 1023-1043: the confirmation prompt of an upgrade; the
\* three returns of the prompt end the command before anything else ran.
Confirm ==
  /\ pc = "confirm"
  /\ \E isatty \in BOOLEAN, answer \in Answers :
       IF args.upgrade /\ ~args.yes /\ isatty /\ answer # "y"
       THEN /\ pc' = "done"
            /\ outcome' = "returned"
            /\ obs' = [obs EXCEPT !.cancelled = TRUE]
       ELSE /\ pc' = "dispatch"
            /\ UNCHANGED <<outcome, obs>>
  /\ UNCHANGED <<elsewhere,
                 disk, args, rc, heat_pid, stack_update_mark, stack_action,
                 exc, child>>

\* take_action: only --standalone is supported.
Dispatch ==
  /\ pc = "dispatch"
  /\ IF args.standalone
     THEN /\ pc' = "precheck"
          /\ UNCHANGED outcome
     ELSE /\ pc' = "done"
          /\ outcome' = "DeploymentError"
  /\ UNCHANGED <<elsewhere,
                 disk, args, rc, heat_pid, stack_update_mark, stack_action,
                 exc, child, obs>>

\* _standalone_deploy: --local-ip and root checks.
Precheck ==
  /\ pc = "precheck"
  /\ \E euid_is_root \in BOOLEAN :
       IF args.local_ip /\ euid_is_root
       THEN /\ pc' = "prepare"
            /\ UNCHANGED outcome
       ELSE /\ pc' = "done"
            /\ outcome' = "DeploymentError"
  /\ UNCHANGED <<elsewhere,
                 disk, args, rc, heat_pid, stack_update_mark, stack_action,
                 exc, child, obs>>

\* _standalone_deploy: working directories, puppet links, template copy,
\* roles data.  All of it runs before the try statement.  _create_working_dirs
\* first clears a rendered-template directory left by an earlier run.
Prepare ==
  /\ pc = "prepare"
  /\ \E templates_exist \in BOOLEAN :
       /\ tmp_ansible_dir' = TRUE
       /\ IF templates_exist
          THEN /\ tht_render' = TRUE
               /\ pc' = "mark"
               /\ rc' = 1
               /\ obs' = [obs EXCEPT !.inTry = TRUE, !.prepared = TRUE,
                                     !.staleCleared = tht_render]
               /\ UNCHANGED outcome
          ELSE /\ tht_render' = FALSE
               /\ pc' = "done"
               /\ outcome' = "NotFound"
               /\ obs' = [obs EXCEPT !.stageRaised = TRUE, !.prepared = TRUE,
                                     !.staleCleared = tht_render,
                                     !.templatesMissing = TRUE]
               /\ UNCHANGED rc
  /\ UNCHANGED <<elsewhere,
                 marks, args, heat_pid, stack_update_mark, stack_action,
                 exc, child>>

\* StackActionFor with the force flag left out of the condition.
StackActionFor_MarkOnly(markPresent, force) ==
  IF markPresent THEN "UPDATE" ELSE "CREATE"

\* Line 922: the action is UPDATE when the mark file exists or the update is
\* forced.
StackActionFor(markPresent, force) ==
  IF markPresent \/ force THEN "UPDATE" ELSE "CREATE"

\* Lines 961-963: except Exception wraps whatever the try block raised.
ExceptClause ==
  /\ exc' = "DeploymentError"
  /\ pc' = "fin_kill"

\* StackUpdateMark with one static file name for every stack.
StackUpdateMark_Static(stack) == "standalone"

\* Lines 916-919: the mark file of a stack is update_mark_<stack> in the
\* vstate directory; a mark file is written here as the stack name that
\* follows the fixed directory and prefix.
StackUpdateMark(stack) == stack

\* Lines 913-928: the mark path of this stack and the stack action.
ComputeStackAction ==
  /\ pc = "mark"
  /\ stack_update_mark' = StackUpdateMark(args.stack)
  /\ stack_action' = IF StackActionFor(stack_update_mark' \in marks,
                                       args.force_stack_update) = "UPDATE"
                     THEN "UPDATE" ELSE stack_action
  /\ pc' = "launch"
  /\ UNCHANGED <<elsewhere,
                 disk, args, rc, heat_pid, exc, outcome, child, obs>>

\* LaunchHeat going straight to the composition, without the readiness wait.
LaunchHeat_SkipWait ==
  /\ pc = "launch"
  /\ heat_pid' = ChildPid
  /\ child' = "forked"
  /\ pc' = "compose"
  /\ obs' = [obs EXCEPT !.launched = TRUE]
  /\ UNCHANGED <<elsewhere,
                 disk, args, rc, stack_update_mark, stack_action, outcome,
                 exc>>

\* _launch_heat: os.fork() and the client for the local port.
LaunchHeat ==
  /\ pc = "launch"
  /\ \/ /\ heat_pid' = ChildPid
        /\ child' = "forked"
        /\ pc' = "wait"
        /\ obs' = [obs EXCEPT !.launched = TRUE]
        /\ UNCHANGED exc
     \/ /\ ExceptClause
        /\ obs' = [obs EXCEPT !.stageRaised = TRUE]
        /\ UNCHANGED <<heat_pid, child>>
  /\ UNCHANGED <<elsewhere,
                 disk, args, rc, stack_update_mark, stack_action, outcome>>

\* utils.wait_api_port_ready: returns once the port answers and raises when
\* the bounded wait is over.  The port answers only if the child became the
\* heat engine.
wait_api_port_ready(engineUp) ==
  IF engineUp THEN {"ready", "timeout"} ELSE {"timeout"}

\* WaitApiPortReady with the timeout caught and ignored.
WaitApiPortReady_IgnoreTimeout ==
  /\ pc = "wait"
  /\ \E r \in wait_api_port_ready(child = "engine") :
       /\ pc' = "compose"
       /\ obs' = [obs EXCEPT !.ready = (r = "ready"), !.waited = TRUE,
                             !.timedOut = (r = "timeout")]
       /\ UNCHANGED exc
  /\ UNCHANGED <<elsewhere,
                 disk, args, rc, heat_pid, stack_update_mark, stack_action,
                 outcome, child>>

\* Lines 932-933: the readiness wait inside the try block.
WaitApiPortReady ==
  /\ pc = "wait"
  /\ \E r \in wait_api_port_ready(child = "engine") :
       IF r = "ready"
       THEN /\ pc' = "compose"
            /\ obs' = [obs EXCEPT !.ready = TRUE, !.waited = TRUE]
            /\ UNCHANGED exc
       ELSE /\ ExceptClause
            /\ obs' = [obs EXCEPT !.stageRaised = TRUE, !.waited = TRUE,
                                  !.timedOut = TRUE]
  /\ UNCHANGED <<elsewhere,
                 disk, args, rc, heat_pid, stack_update_mark, stack_action,
                 outcome, child>>

\* ProcessTemplatesFailed that takes every exit code as success.
ProcessTemplatesFailed_Never(code) == FALSE

\* Line 503: the exit code of process-templates.py.
ProcessTemplatesFailed(code) == code # 0

\* _setup_heat_environments and the environment processing of
\* _deploy_tripleo_heat_templates: the last file written is the
\* stack-vstate drop-in holding self.stack_action.
SetupHeatEnvironments ==
  /\ pc = "compose"
  /\ \/ \E code \in ExitCodes :
          IF ProcessTemplatesFailed(code)
          THEN /\ ExceptClause
               /\ obs' = [obs EXCEPT !.stageRaised = TRUE,
                                     !.process_rc = code]
          ELSE /\ pc' = "submit"
               /\ obs' = [obs EXCEPT !.dropin = stack_action,
                                     !.process_rc = code]
               /\ UNCHANGED exc
     \/ /\ ExceptClause
        /\ obs' = [obs EXCEPT !.stageRaised = TRUE]
     \/ /\ ExceptClause
        /\ obs' = [obs EXCEPT !.stageRaised = TRUE, !.dropin = stack_action,
                              !.process_rc = 0]
  /\ UNCHANGED <<elsewhere,
                 disk, args, rc, heat_pid, stack_update_mark, stack_action,
                 outcome, child>>

\* orchestration_client.stacks.create
StackCreate ==
  /\ pc = "submit"
  /\ \/ /\ pc' = "poll"
        /\ obs' = [obs EXCEPT !.submitted = @ + 1, !.stack_id = TRUE]
        /\ UNCHANGED exc
     \/ /\ ExceptClause
        /\ obs' = [obs EXCEPT !.stageRaised = TRUE, !.submitted = @ + 1]
  /\ UNCHANGED <<elsewhere,
                 disk, args, rc, heat_pid, stack_update_mark, stack_action,
                 outcome, child>>

\* StatusIsSuccess accepting every *_COMPLETE status.
StatusIsSuccess_AnyComplete(status) ==
  status \in {"CREATE_COMPLETE", "UPDATE_COMPLETE"}

\* Line 942: the only status taken as success.
StatusIsSuccess(status) == status = "CREATE_COMPLETE"

\* event_utils.poll_for_events and the status check.
PollForEvents ==
  /\ pc = "poll"
  /\ \/ \E status \in Statuses :
          /\ obs' = [obs EXCEPT !.status = status, !.polled = TRUE]
          /\ IF StatusIsSuccess(status)
             THEN /\ pc' = "download"
                  /\ UNCHANGED exc
             ELSE ExceptClause
     \/ /\ ExceptClause
        /\ obs' = [obs EXCEPT !.stageRaised = TRUE, !.polled = TRUE]
  /\ UNCHANGED <<elsewhere,
                 disk, args, rc, heat_pid, stack_update_mark, stack_action,
                 outcome, child>>

\* _download_ansible_playbooks
DownloadAnsiblePlaybooks ==
  /\ pc = "download"
  /\ \/ /\ pc' = "kill"
        /\ obs' = [obs EXCEPT !.downloaded = TRUE]
        /\ UNCHANGED exc
     \/ /\ ExceptClause
        /\ obs' = [obs EXCEPT !.stageRaised = TRUE]
  /\ UNCHANGED <<elsewhere,
                 disk, args, rc, heat_pid, stack_update_mark, stack_action,
                 outcome, child>>

\* kill_heat that forgets to reset self.heat_pid.
kill_heat_KeepPid ==
  IF heat_pid # NoPid
  THEN /\ child' = "reaped"
       /\ obs' = [obs EXCEPT !.kills = @ + 1]
       /\ UNCHANGED heat_pid
  ELSE UNCHANGED <<child, heat_pid, obs>>

\* _kill_heat: signal and reap the child if one is recorded.
kill_heat ==
  IF heat_pid # NoPid
  THEN /\ child' = "reaped"
       /\ heat_pid' = NoPid
       /\ obs' = [obs EXCEPT !.kills = @ + 1]
  ELSE UNCHANGED <<child, heat_pid, obs>>

\* AfterKill with the playbooks run whatever --output-only says.
AfterKill_IgnoreOutputOnly(output_only, upgrade) ==
  IF upgrade THEN "upgrade" ELSE "ansible"

\* Lines 953-955: without --output-only the upgrade tasks or the deployment
\* follow; with it the try block is over.
AfterKill(output_only, upgrade) ==
  IF output_only THEN "fin_kill"
  ELSE IF upgrade THEN "upgrade" ELSE "ansible"

\* KillHeat without the call of _kill_heat.
KillHeat_Skip ==
  /\ pc = "kill"
  /\ pc' = AfterKill(args.output_only, args.upgrade)
  /\ UNCHANGED <<elsewhere,
                 disk, args, rc, stack_update_mark, stack_action, exc,
                 outcome, child, heat_pid, obs>>

\* Lines 952-956: heat is killed after the download; which phase follows.
KillHeat ==
  /\ pc = "kill"
  /\ kill_heat
  /\ pc' = AfterKill(args.output_only, args.upgrade)
  /\ UNCHANGED <<elsewhere,
                 disk, args, rc, stack_update_mark, stack_action, exc,
                 outcome>>

PhaseResult(code) == IF code = 0 THEN "zero" ELSE "nonzero"

\* UpgradeFailed with the exit code check dropped.
UpgradeFailed_Never(code) == FALSE

\* Line 958: a non-zero upgrade is fatal.
UpgradeFailed(code) == code # 0

\* _launch_ansible_upgrade and the check of its exit code.
LaunchAnsibleUpgrade ==
  /\ pc = "upgrade"
  /\ \/ \E code \in ExitCodes :
          /\ rc' = code
          /\ obs' = [obs EXCEPT !.upgrade = PhaseResult(code)]
          /\ IF UpgradeFailed(code)
             THEN ExceptClause
             ELSE /\ pc' = "ansible"
                  /\ UNCHANGED exc
     \/ /\ ExceptClause
        /\ obs' = [obs EXCEPT !.upgrade = "raised", !.stageRaised = TRUE]
        /\ UNCHANGED rc
  /\ UNCHANGED <<elsewhere,
                 disk, args, heat_pid, stack_update_mark, stack_action,
                 outcome, child>>

\* _launch_ansible_deploy: the last statement of the try block.
LaunchAnsibleDeploy ==
  /\ pc = "ansible"
  /\ \/ \E code \in ExitCodes :
          /\ rc' = code
          /\ obs' = [obs EXCEPT !.deploy = PhaseResult(code)]
          /\ pc' = "fin_kill"
          /\ UNCHANGED exc
     \/ /\ ExceptClause
        /\ obs' = [obs EXCEPT !.deploy = "raised", !.stageRaised = TRUE]
        /\ UNCHANGED rc
  /\ UNCHANGED <<elsewhere,
                 disk, args, heat_pid, stack_update_mark, stack_action,
                 outcome, child>>

\* FinallyKillHeat without the call of _kill_heat.
FinallyKillHeat_Skip ==
  /\ pc = "fin_kill"
  /\ pc' = "fin_archive"
  /\ UNCHANGED <<elsewhere,
                 disk, args, rc, stack_update_mark, stack_action, exc,
                 outcome, child, heat_pid, obs>>

\* Line 965: finally starts with _kill_heat.
FinallyKillHeat ==
  /\ pc = "fin_kill"
  /\ kill_heat
  /\ pc' = "fin_archive"
  /\ UNCHANGED <<elsewhere,
                 disk, args, rc, stack_update_mark, stack_action, exc,
                 outcome>>

\* CreateInstallArtifact that logs the error and goes on.
CreateInstallArtifact_Swallow ==
  /\ pc = "fin_archive"
  /\ pc' = "fin_cleanup"
  /\ \/ /\ tht_render /\ tmp_ansible_dir
        /\ obs' = [obs EXCEPT !.archived = TRUE]
     \/ obs' = [obs EXCEPT !.archiveFailed = TRUE]
  /\ UNCHANGED <<elsewhere,
                 disk, args, rc, heat_pid, stack_update_mark, stack_action,
                 child, exc, outcome>>

\* _create_install_artifact: both directories go into one tarball; any
\* error is logged and raised as DeploymentError, out of the finally block.
CreateInstallArtifact ==
  /\ pc = "fin_archive"
  /\ \/ /\ tht_render /\ tmp_ansible_dir
        /\ pc' = "fin_cleanup"
        /\ obs' = [obs EXCEPT !.archived = TRUE]
        /\ UNCHANGED <<exc, outcome>>
     \/ /\ pc' = "done"
        /\ exc' = "DeploymentError"
        /\ outcome' = "DeploymentError"
        /\ obs' = [obs EXCEPT !.archiveFailed = TRUE]
  /\ UNCHANGED <<elsewhere,
                 disk, args, rc, heat_pid, stack_update_mark, stack_action,
                 child>>

\* _cleanup_working_dirs: rmtree of the templates ignores errors, rmtree of
\* the ansible directory does not.
CleanupWorkingDirs ==
  /\ pc = "fin_cleanup"
  /\ IF args.cleanup
     THEN /\ tht_render' = FALSE
          /\ \/ /\ tmp_ansible_dir' = FALSE
                /\ pc' = "fin_mark"
                /\ obs' = [obs EXCEPT !.deleted = TRUE]
                /\ UNCHANGED <<exc, outcome>>
             \/ /\ tmp_ansible_dir
                /\ UNCHANGED tmp_ansible_dir
                /\ pc' = "done"
                /\ exc' = "Error"
                /\ outcome' = "Error"
                /\ obs' = [obs EXCEPT !.cleanupFailed = TRUE,
                                      !.deleted = TRUE]
     ELSE /\ pc' = "fin_mark"
          /\ UNCHANGED <<tht_render, tmp_ansible_dir, exc, outcome, obs>>
  /\ UNCHANGED <<elsewhere,
                 marks, args, rc, heat_pid, stack_update_mark, stack_action,
                 child>>

\* FailureBranch without the output_only test.
FailureBranch_IgnoreOutputOnly(output_only, code) == code # 0

\* Line 971: the branch of the finally block that reports failure.
FailureBranch(output_only, code) == ~output_only /\ code # 0

\* RemovesMark without the force_stack_update test.
RemovesMark_IgnoreForce(mark, force, present) == mark # "None" /\ present

\* Lines 974-976: the mark is removed when it was not forced and exists.
RemovesMark(mark, force, present) == mark # "None" /\ ~force /\ present

\* Lines 997-999: the mark is written unless output-only without force.
WritesMark(mark, output_only, force) ==
  mark # "None" /\ (~output_only \/ force)

\* Lines 1046-1049: take_action raises when _standalone_deploy returns
\* non-zero.
TakeActionResult(code) == IF code # 0 THEN "DeploymentError" ELSE "returned"

\* Lines 971-1019 and the return into take_action: the mark is adjusted, a
\* banner is logged and the run ends; "return rc" is part of the finally
\* block, so it discards the exception in flight.
FinalizeMark ==
  /\ pc = "fin_mark"
  /\ pc' = "done"
  /\ IF FailureBranch(args.output_only, rc)
     THEN LET remove == RemovesMark(stack_update_mark,
                                    args.force_stack_update,
                                    stack_update_mark \in marks)
          IN /\ marks' = IF remove THEN marks \ {stack_update_mark}
                         ELSE marks
             /\ obs' = [obs EXCEPT !.finalized = TRUE,
                                   !.markRemoved = remove,
                                   !.failureBanner = TRUE]
             /\ exc' = "DeploymentError"
             /\ outcome' = "DeploymentError"
     ELSE LET write == WritesMark(stack_update_mark, args.output_only,
                                  args.force_stack_update)
          IN /\ marks' = IF write THEN marks \cup {stack_update_mark}
                         ELSE marks
             /\ obs' = [obs EXCEPT !.finalized = TRUE,
                                   !.markWritten = write,
                                   !.successBanner = TRUE]
             /\ exc' = "none"
             /\ outcome' = TakeActionResult(rc)
  /\ UNCHANGED <<elsewhere,
                 tht_render, tmp_ansible_dir, args, rc, heat_pid,
                 stack_update_mark, stack_action, child>>

\* The forked child: heat_db_sync and launch_heat replace the process image,
\* or the child raises (missing heat user, failed sync, failed exec) inside
\* the try block of its own copy of _standalone_deploy.
ChildExec ==
  /\ child = "forked"
  /\ \E heat_user_exists \in BOOLEAN, exec_ok \in BOOLEAN :
       IF ~heat_user_exists
       THEN /\ child' = "c_fin_archive"
            /\ obs' = [obs EXCEPT !.childError = "no_user"]
       ELSE IF exec_ok
       THEN /\ child' = "engine"
            /\ UNCHANGED obs
       ELSE /\ child' = "c_fin_archive"
            /\ obs' = [obs EXCEPT !.childError = "exec_failed"]
  /\ UNCHANGED <<elsewhere,
                 disk, args, pc, rc, heat_pid, stack_update_mark,
                 stack_action, exc, outcome>>

\* The child's finally block: _kill_heat sees heat_pid 0, then the tarball.
ChildCreateInstallArtifact ==
  /\ child = "c_fin_archive"
  /\ \/ /\ tht_render /\ tmp_ansible_dir
        /\ child' = "c_fin_cleanup"
        /\ obs' = [obs EXCEPT !.childArchived = TRUE]
     \/ /\ child' = "exited"
        /\ UNCHANGED obs
  /\ UNCHANGED <<elsewhere,
                 disk, args, pc, rc, heat_pid, stack_update_mark,
                 stack_action, exc, outcome>>

\* The child's _cleanup_working_dirs.
ChildCleanupWorkingDirs ==
  /\ child = "c_fin_cleanup"
  /\ IF args.cleanup
     THEN /\ tht_render' = FALSE
          /\ obs' = [obs EXCEPT !.childDeleted = TRUE]
          /\ \/ /\ tmp_ansible_dir' = FALSE
                /\ child' = "c_fin_mark"
             \/ /\ tmp_ansible_dir
                /\ UNCHANGED tmp_ansible_dir
                /\ child' = "exited"
     ELSE /\ child' = "c_fin_mark"
          /\ UNCHANGED <<tht_render, tmp_ansible_dir, obs>>
  /\ UNCHANGED <<elsewhere,
                 marks, args, pc, rc, heat_pid, stack_update_mark,
                 stack_action, exc, outcome>>

\* The child's mark adjustment: its rc is still the initial 1 and its
\* stack_update_mark is the one computed before the fork.
ChildFinalizeMark ==
  /\ child = "c_fin_mark"
  /\ child' = "exited"
  /\ IF FailureBranch(args.output_only, 1)
     THEN LET remove == RemovesMark(stack_update_mark,
                                    args.force_stack_update,
                                    stack_update_mark \in marks)
          IN /\ marks' = IF remove THEN marks \ {stack_update_mark}
                         ELSE marks
             /\ obs' = [obs EXCEPT !.childMarkRemoved = remove]
     ELSE LET write == WritesMark(stack_update_mark, args.output_only,
                                  args.force_stack_update)
          IN /\ marks' = IF write THEN marks \cup {stack_update_mark}
                         ELSE marks
             /\ obs' = [obs EXCEPT !.childMarkWritten = write]
  /\ UNCHANGED <<elsewhere,
                 tht_render, tmp_ansible_dir, args, pc, rc, heat_pid,
                 stack_update_mark, stack_action, exc, outcome>>

Next ==
  \/ Start
  \/ Confirm
  \/ Dispatch
  \/ Precheck
  \/ Prepare
  \/ ComputeStackAction
  \/ LaunchHeat
  \/ WaitApiPortReady
  \/ SetupHeatEnvironments
  \/ StackCreate
  \/ PollForEvents
  \/ DownloadAnsiblePlaybooks
  \/ KillHeat
  \/ LaunchAnsibleUpgrade
  \/ LaunchAnsibleDeploy
  \/ FinallyKillHeat
  \/ CreateInstallArtifact
  \/ CleanupWorkingDirs
  \/ FinalizeMark
  \/ ChildExec
  \/ ChildCreateInstallArtifact
  \/ ChildCleanupWorkingDirs
  \/ ChildFinalizeMark

Spec == Init /\ [][Next]_vars

\* The parent is one sequential process: a readiness wait that was started
\* is carried out.
FairSpec == Spec /\ WF_vars(WaitApiPortReady)

----------------------------------------------------------------------------
\* Properties of a run.

Done == pc = "done"

\* take_action ended with an exception.
Failed == outcome \in {"DeploymentError", "NotFound", "Error"}

EngineSucceeded == obs.status = "CREATE_COMPLETE"

EngineFailed == obs.status \notin {"none", "CREATE_COMPLETE"}

\* The engine reached the success status, nothing raised and every requested
\* phase exited 0.
FullySuccessful ==
  /\ EngineSucceeded
  /\ ~obs.stageRaised
  /\ obs.downloaded
  /\ ~args.output_only => obs.deploy = "zero"
  /\ (~args.output_only /\ args.upgrade) => obs.upgrade = "zero"

\* C1: a run that is not output-only, in which the engine reported
\* CREATE_COMPLETE and every automation phase that ran exited 0 (the deploy
\* phase among them), ends with the mark of its stack present.
C1_SuccessMarks ==
  (/\ Done
   /\ ~args.output_only
   /\ EngineSucceeded
   /\ obs.deploy = "zero"
   /\ obs.upgrade \in {"notrun", "zero"})
  => args.stack \in marks

\* C2: a run without --force-stack-update that entered the deployment and
\* failed ends with the mark of its stack absent.
C2_FailureUnmarks ==
  (/\ Done
   /\ Failed
   /\ obs.inTry
   /\ ~args.output_only
   /\ ~args.force_stack_update)
  => args.stack \notin marks

\* C3: the mark is written in a run only if the engine reached the success
\* status and every requested automation phase exited 0.
C3_MarkWrittenOnlyOnSuccess ==
  obs.markWritten => FullySuccessful

\* C4: a run in which the engine status is not the success status, a stage
\* raised or a phase exited non-zero never returns normally.
C4_FailedRunRaises ==
  (/\ Done
   /\ \/ EngineFailed
      \/ obs.stageRaised
      \/ obs.upgrade = "nonzero"
      \/ obs.deploy = "nonzero")
  => outcome # "returned"

\* C5: every run that created its working directories has produced the
\* archive by the time it ends.
C5_AlwaysArchived ==
  (Done /\ obs.prepared) => obs.archived

\* C6: an error while archiving or deleting in the finalization does not
\* end the finalization: the mark adjustment and the report still run.
C6_CleanupNeverRaises ==
  (Done /\ (obs.archiveFailed \/ obs.cleanupFailed)) => obs.finalized

\* C7: with --upgrade the deploy phase is started only after the upgrade
\* phase exited 0; after a non-zero upgrade exit the deploy phase is not
\* invoked and the run ends in failure.
C7_UpgradeGatesDeploy ==
  /\ (args.upgrade /\ (pc = "ansible" \/ obs.deploy # "notrun"))
       => obs.upgrade = "zero"
  /\ obs.upgrade = "nonzero" => obs.deploy = "notrun"
  /\ (Done /\ obs.upgrade = "nonzero") => Failed

C7_Witness ==
  /\ Done
  /\ args.upgrade
  /\ obs.upgrade = "nonzero"
  /\ obs.deploy = "notrun"
  /\ outcome = "DeploymentError"

\* C8: for every polled status other than CREATE_COMPLETE the download and
\* the automation phases are never started and the run ends in failure.
C8_OnlyCreateCompleteSucceeds ==
  EngineFailed =>
    /\ ~obs.downloaded
    /\ pc \notin {"download", "kill", "upgrade", "ansible"}
    /\ obs.upgrade = "notrun"
    /\ obs.deploy = "notrun"
    /\ Done => Failed

C8_Witness ==
  /\ Done
  /\ obs.status = "UPDATE_COMPLETE"
  /\ outcome = "DeploymentError"
  /\ ~obs.downloaded

\* C9: a failed run started with --force-stack-update while the mark of its
\* stack was present ends with the mark still present.
C9_ForcedNotRolledBack ==
  (/\ Done
   /\ Failed
   /\ args.force_stack_update
   /\ obs.markAtStart)
  => args.stack \in marks

C9_Witness ==
  /\ Done
  /\ args.force_stack_update
  /\ obs.markAtStart
  /\ obs.failureBanner
  /\ outcome = "DeploymentError"
  /\ args.stack \in marks

\* C10: once computed, the stack action is UPDATE exactly when the mark was
\* present at the start of the run or the update is forced, and the
\* stack-vstate drop-in written by the run holds that action.
C10_StackAction ==
  stack_update_mark # "None" =>
    /\ stack_action = "UPDATE"
         <=> (obs.markAtStart \/ args.force_stack_update)
    /\ stack_action \in {"CREATE", "UPDATE"}
    /\ obs.dropin # "none" => obs.dropin = stack_action

C10_Witness ==
  /\ obs.dropin = "UPDATE"
  /\ ~obs.markAtStart
  /\ args.force_stack_update
  /\ obs.submitted = 1

\* C11: a mark file disappears only in the finalization of a run that ends
\* in failure, was not forced and found the mark present when it started.
C11_RemovalOnlyInFailedFinalization ==
  [][\A n \in Names :
       (n \in marks /\ n \notin marks') =>
         /\ n = args.stack
         /\ pc = "fin_mark"
         /\ outcome' \in {"DeploymentError", "NotFound", "Error"}
         /\ ~args.force_stack_update
         /\ obs.markAtStart]_vars

C13_ChildReapedAtEnd ==
  (Done /\ obs.launched) => (child = "reaped" /\ heat_pid = NoPid)

C13_Witness ==
  /\ Done
  /\ obs.launched
  /\ obs.timedOut
  /\ ~obs.downloaded
  /\ obs.kills = 1
  /\ child = "reaped"

\* C14: over the calls of _kill_heat of one run the child is signalled and
\* reaped at most once; a call without a recorded pid changes nothing.
C14_KillAtMostOnce ==
  /\ obs.kills <= 1
  /\ obs.kills = 1 => (obs.launched /\ heat_pid = NoPid /\ child = "reaped")
  /\ ~obs.launched => (obs.kills = 0 /\ child = "none")

C14_Witness ==
  /\ pc = "fin_archive"
  /\ obs.downloaded
  /\ obs.deploy = "zero"
  /\ obs.kills = 1
  /\ heat_pid = NoPid

\* C15: the stack is created only after the fork and a returned readiness
\* wait, polling starts only after the create returned a stack id, and
\* there is at most one create per run.
C15_SubmitOrder ==
  /\ (pc \in {"compose", "submit"} \/ obs.submitted > 0)
       => (obs.launched /\ obs.ready)
  /\ (pc = "poll" \/ obs.polled) => obs.stack_id
  /\ obs.stack_id => obs.submitted = 1
  /\ obs.submitted <= 1

C15_Witness ==
  /\ obs.polled
  /\ obs.stack_id
  /\ obs.submitted = 1
  /\ obs.ready
  /\ obs.launched

\* C16: an automation phase runs only after the download and after the heat
\* child has been killed and reaped.
C16_EngineDownBeforePhases ==
  (pc \in {"upgrade", "ansible"}
     \/ obs.upgrade # "notrun" \/ obs.deploy # "notrun")
  => /\ obs.downloaded
     /\ child = "reaped"
     /\ heat_pid = NoPid
     /\ obs.kills = 1

C16_Witness ==
  /\ pc = "fin_kill"
  /\ obs.upgrade = "zero"
  /\ obs.deploy = "zero"
  /\ child = "reaped"

\* C17: a readiness wait that was started ends, and after a timeout nothing
\* is composed or submitted and the run ends in failure.
C17_TimeoutIsFatal ==
  /\ [](obs.timedOut =>
          /\ ~obs.ready
          /\ pc \notin {"compose", "submit", "poll", "download"}
          /\ obs.dropin = "none"
          /\ obs.submitted = 0
          /\ Done => Failed)
  /\ ((pc = "wait") ~> (pc # "wait"))

C17_Witness ==
  /\ Done
  /\ obs.timedOut
  /\ child = "reaped"
  /\ obs.childError = "none"
  /\ outcome = "DeploymentError"

\* C18: once the child found the heat user missing, no engine is started and
\* the parent carries out neither the readiness wait nor a submission.
C18_MissingUserStopsCoordinator ==
  [][obs.childError = "no_user" =>
       /\ child' # "engine"
       /\ ~(pc = "wait" /\ pc' # "wait")
       /\ obs'.submitted = 0]_vars

\* C19 as stated: whenever a rendered-template or ansible directory has been
\* deleted in a run, an archive had been written in that run.
C19_NoDeletionBeforeArchive ==
  (pc # "idle" /\ (obs.staleCleared \/ obs.deleted \/ obs.childDeleted))
  => (obs.archived \/ obs.childArchived)

\* C19 amended: a process deletes the working directories in its finalization
\* only after it has written the archive; without its archive it deletes
\* nothing.  (The clearing of a rendered-template directory left by an
\* earlier run, when the working directories are created, is apart.)
C19_CleanupOnlyAfterArchive ==
  /\ obs.deleted => obs.archived
  /\ obs.childDeleted => obs.childArchived
  /\ obs.archiveFailed => ~obs.deleted

C19_Witness ==
  /\ Done
  /\ args.cleanup
  /\ obs.deleted
  /\ obs.archived
  /\ ~tht_render
  /\ ~tmp_ansible_dir

\* C20: a run with --cleanup that reached the finalization ends with both
\* working directories gone.
C20_CleanupRemovesBoth ==
  (Done /\ obs.inTry /\ args.cleanup) => (~tht_render /\ ~tmp_ansible_dir)

\* C31: a cancelled upgrade prompt ends the command with no effect: the
\* command returns, no working directory was created or cleared, no engine
\* process was launched, the composition (which writes the secret files) was
\* not entered and the marker is as it was when the command started.
C31_CancelHasNoEffect ==
  obs.cancelled =>
    /\ Done
    /\ outcome = "returned"
    /\ ~obs.prepared /\ ~obs.staleCleared /\ ~tmp_ansible_dir
    /\ ~obs.deleted /\ ~obs.childDeleted
    /\ ~obs.launched /\ heat_pid = NoPid /\ child = "none"
    /\ obs.process_rc = -1 /\ obs.dropin = "none" /\ obs.submitted = 0
    /\ ~obs.finalized /\ ~obs.markWritten /\ ~obs.markRemoved
    /\ (args.stack \in marks) = obs.markAtStart

C31_Witness ==
  /\ obs.cancelled
  /\ args.upgrade /\ ~args.yes /\ args.standalone
  /\ tht_render
  /\ args.stack \in marks

\* C32: the marker of a stack is a function of its name that tells two names
\* apart, and a run changes and consults the marker of its own stack only:
\* every other marker stays as it is, the path the run holds is its own, and
\* the stack action follows from the presence of its own marker.
C32_MarkersIndependent ==
  [][/\ \A a, b \in Names :
          a # b => StackUpdateMark(a) # StackUpdateMark(b)
     /\ \A n \in Names :
          n # args'.stack => (n \in marks' <=> n \in marks)
     /\ stack_update_mark' \in {"None", args'.stack}
     /\ pc = "mark" =>
          stack_action' = IF args.stack \in marks \/ args.force_stack_update
                          THEN "UPDATE" ELSE "CREATE"]_vars

C32_Witness ==
  /\ Done
  /\ args.stack = "undercloud"
  /\ obs.markRemoved
  /\ marks = {"standalone"}

\* C33: the success banner is logged only by a run in which the engine
\* reached the success status and no stage raised.
C33_SuccessBannerOnlyOnSuccess ==
  obs.successBanner => (EngineSucceeded /\ ~obs.stageRaised)

\* C34: with --output-only neither the upgrade phase nor the deploy phase is
\* ever invoked.
C34_OutputOnlyRunsNoPlaybooks ==
  args.output_only => (obs.upgrade = "notrun" /\ obs.deploy = "notrun")

\* An output-only run that submitted, polled and downloaded all the same.
C34_Witness ==
  /\ Done
  /\ args.output_only
  /\ args.upgrade
  /\ obs.submitted = 1
  /\ obs.polled
  /\ obs.downloaded
  /\ obs.kills = 1
  /\ obs.upgrade = "notrun" /\ obs.deploy = "notrun"

\* C35: an output-only run in which the engine reached the success status
\* and the download succeeded returns normally from take_action.
C35_OutputOnlySuccessReturns ==
  (Done /\ args.output_only /\ EngineSucceeded /\ obs.downloaded
        /\ ~obs.stageRaised /\ obs.finalized)
  => outcome = "returned"

\* C36: the forked child never runs the finalization: it writes no archive,
\* deletes no working directory and leaves the marker alone.
C36_ChildNeverFinalizes ==
  /\ ~obs.childArchived
  /\ ~obs.childDeleted
  /\ ~obs.childMarkWritten
  /\ ~obs.childMarkRemoved
  /\ child \notin {"c_fin_archive", "c_fin_cleanup", "c_fin_mark"}

\* ---------------------------------------------------------------------
\* _setup_heat_environments, step by step, for the command lines that name
\* override files.
\* ---------------------------------------------------------------------

\* The run when _deploy_tripleo_heat_templates is entered (line 936): heat
\* was forked and its port answered.
RunAtCompose ==
  /\ marks = {}
  /\ tht_render = TRUE
  /\ tmp_ansible_dir = TRUE
  /\ args = [DefaultArgs EXCEPT !.standalone = TRUE, !.local_ip = TRUE]
  /\ pc = "compose"
  /\ rc = 1
  /\ heat_pid = ChildPid
  /\ stack_update_mark = "standalone"
  /\ stack_action = "CREATE"
  /\ exc = "none"
  /\ outcome = "running"
  /\ child = "engine"
  /\ obs = [NoObs EXCEPT !.inTry = TRUE, !.prepared = TRUE,
                         !.launched = TRUE, !.ready = TRUE, !.waited = TRUE]

\* Forms of --hieradata-override: not given, a file that does not exist, a
\* file in the legacy format, a file already wrapped for t-h-t.
HieradataForms == {"none", "missing", "legacy", "tht"}

\* The file named by --hieradata-override.
HieradataFile == join(HomeDir, <<"x">>)

ComposeInit ==
  /\ RunAtCompose
  /\ SecretsOff
  /\ PairOff
  /\ PreflightOff
  /\ UpdateOff
  /\ cwd \in {UserTht, HomeDir}
  /\ templates \in {UserTht, UserTht \o Slash}
  /\ environment_files \in EnvFileLists
  /\ hieradata_override \in HieradataForms
  /\ fs = CopiedTree
  /\ user_environments = <<>>
  /\ environments = <<>>
  /\ cpc = "normalize"
  /\ cerr = "none"

\* CopyDestinationTaken that never finds the destination.
CopyDestinationTaken_Never(files, target_dest) == FALSE

\* Line 464: os.path.exists(target_dest).
CopyDestinationTaken(files, target_dest) == path_exists(files, target_dest)

\* _normalize_user_templates: the loop over env_files, with the files of
\* the rendered directory and the list built so far.
RECURSIVE normalize_user_templates(_, _, _, _, _, _)
normalize_user_templates(user_tht_root, tht_root, env_files, dir, files, done) ==
  IF env_files = <<>>
  THEN [environments |-> done, fs |-> files, raised |-> FALSE]
  ELSE
    LET env_path == Head(env_files)
        user_tht == abspath(dir, user_tht_root)
        abs_env_path == abspath(dir, env_path)
        target_dest == join(tht_root, basename(abs_env_path))
    IN  IF /\ startswith(abs_env_path, user_tht_root)
           /\ \/ contains(user_tht \o Slash, env_path)
              \/ contains(user_tht \o Slash, abs_env_path)
              \/ user_tht = abs_env_path
              \/ user_tht = env_path
        THEN normalize_user_templates(
               user_tht_root, tht_root, Tail(env_files), dir, files,
               Append(done, replace(env_path, user_tht \o Slash,
                                    tht_root \o Slash)))
        ELSE IF startswith(abs_env_path, tht_root)
        THEN normalize_user_templates(
               user_tht_root, tht_root, Tail(env_files), dir, files,
               Append(done, abs_env_path))
        ELSE IF CopyDestinationTaken(files, target_dest)
        THEN [environments |-> done, fs |-> files, raised |-> TRUE]
        ELSE normalize_user_templates(
               user_tht_root, tht_root, Tail(env_files), dir,
               write_file(files, target_dest, CopyOf(abs_env_path)),
               Append(done, target_dest))

\* Lines 493-495: the caller's files are brought into the rendered
\* directory first.
NormalizeUserTemplates ==
  /\ cpc = "normalize"
  /\ LET r == normalize_user_templates(templates, ThtRender,
                                       environment_files, cwd, fs, <<>>)
     IN  /\ fs' = r.fs
         /\ IF r.raised
            THEN /\ cpc' = "raised"
                 /\ cerr' = "collision"
                 /\ UNCHANGED user_environments
            ELSE /\ cpc' = "render"
                 /\ user_environments' = r.environments
                 /\ UNCHANGED cerr
  /\ UNCHANGED <<run, secretVars, laterVars, cwd, templates, environment_files,
                 hieradata_override, environments>>

\* The file process-templates.py renders into the output directory.
RenderedFile == join(ThtRender, <<"j">>)

\* Lines 497-507: process-templates.py is run on the rendered directory.
ProcessTemplates ==
  /\ cpc = "render"
  /\ \E code \in ExitCodes :
       IF ProcessTemplatesFailed(code)
       THEN /\ cpc' = "raised"
            /\ cerr' = "preprocessor"
            /\ UNCHANGED fs
       ELSE /\ cpc' = "plan"
            /\ fs' = write_file(fs, RenderedFile, FromPreprocessor)
            /\ UNCHANGED cerr
  /\ UNCHANGED <<run, secretVars, laterVars, cwd, templates, environment_files,
                 hieradata_override, user_environments, environments>>

\* utils.rel_or_abs_path: a path of the plan is taken inside the rendered
\* directory unless it is absolute.
rel_or_abs_path(tht_root, path) == join(tht_root, path)

\* The environments the plan-environment file of the checkout lists.
PlanEnvironments == << <<"e", "/", "a">> >>

\* Lines 513-519: the environments of the plan come first.
PlanEnvironment ==
  /\ cpc = "plan"
  /\ environments' = [i \in 1..Len(PlanEnvironments) |->
                        rel_or_abs_path(ThtRender, PlanEnvironments[i])]
  /\ cpc' = "passwords"
  /\ UNCHANGED <<run, secretVars, laterVars, cwd, templates, environment_files,
                 hieradata_override, fs, user_environments, cerr>>

\* Line 229: the passwords file is a file of the output directory.
PwFilePath == join(OutputDir, PasswordsName)

\* Lines 521-523: the passwords file, written by _update_passwords_env.
AppendPasswordsEnv ==
  /\ cpc = "passwords"
  /\ environments' = Append(environments, PwFilePath)
  /\ cpc' = "static"
  /\ UNCHANGED <<run, secretVars, laterVars, cwd, templates, environment_files,
                 hieradata_override, fs, user_environments, cerr>>

\* Lines 526-535: config-download-environment.yaml, then
\* deployed-server-noop-ctlplane.yaml.
StaticEnvironments ==
  <<join(ThtRender, <<"e", "/", "c">>), join(ThtRender, <<"e", "/", "n">>)>>

DeployedServerEnvs ==
  /\ cpc = "static"
  /\ environments' = environments \o StaticEnvironments
  /\ cpc' = "maps"
  /\ UNCHANGED <<run, secretVars, laterVars, cwd, templates, environment_files,
                 hieradata_override, fs, user_environments, cerr>>

\* Line 540
MapsFilePath == join(ThtRender, MapsName)

\* HostsPortmaps putting its file at the front of the list.
HostsPortmaps_Prepend ==
  /\ cpc = "maps"
  /\ fs' = write_file(fs, MapsFilePath, Generated)
  /\ environments' = <<MapsFilePath>> \o environments
  /\ cpc' = "hiera"
  /\ UNCHANGED <<run, secretVars, laterVars, cwd, templates, environment_files,
                 hieradata_override, user_environments, cerr>>

\* Lines 540-564: the hosts and the port map parameters go into one file,
\* opened for writing whatever is there.
HostsPortmaps ==
  /\ cpc = "maps"
  /\ fs' = write_file(fs, MapsFilePath, Generated)
  /\ environments' = Append(environments, MapsFilePath)
  /\ cpc' = "hiera"
  /\ UNCHANGED <<run, secretVars, laterVars, cwd, templates, environment_files,
                 hieradata_override, user_environments, cerr>>

\* Line 862
HieraFilePath == join(ThtRender, HieraName)

\* Lines 568-571 and _process_hieradata_overrides: a legacy file is wrapped
\* into a new file of the rendered directory, a wrapped one is used as it is.
HieradataOverrides ==
  /\ cpc = "hiera"
  /\ CASE hieradata_override = "none" ->
            /\ cpc' = "dropin"
            /\ UNCHANGED <<fs, environments, cerr>>
       [] hieradata_override = "missing" ->
            /\ cpc' = "raised"
            /\ cerr' = "hieradata"
            /\ UNCHANGED <<fs, environments>>
       [] hieradata_override = "legacy" ->
            /\ cpc' = "dropin"
            /\ fs' = write_file(fs, HieraFilePath, Generated)
            /\ environments' = Append(environments, HieraFilePath)
            /\ UNCHANGED cerr
       [] hieradata_override = "tht" ->
            /\ cpc' = "dropin"
            /\ environments' = Append(environments, HieradataFile)
            /\ UNCHANGED <<fs, cerr>>
  /\ UNCHANGED <<run, secretVars, laterVars, cwd, templates, environment_files,
                 hieradata_override, user_environments>>

\* Line 575
DropinFilePath == join(ThtRender, DropinName)

\* ComposedList with the caller's files in front.
ComposedList_UserFirst(system, user) == user \o system

\* Line 584: environments + user_environments.
ComposedList(system, user) == system \o user

\* Lines 573-584: the drop-in file, and the list that is returned.
StackVstateDropin ==
  /\ cpc = "dropin"
  /\ fs' = write_file(fs, DropinFilePath, Generated)
  /\ environments' = ComposedList(Append(environments, DropinFilePath),
                                  user_environments)
  /\ cpc' = "returned"
  /\ UNCHANGED <<run, secretVars, laterVars, cwd, templates, environment_files,
                 hieradata_override, user_environments, cerr>>

ComposeNext ==
  \/ NormalizeUserTemplates
  \/ ProcessTemplates
  \/ PlanEnvironment
  \/ AppendPasswordsEnv
  \/ DeployedServerEnvs
  \/ HostsPortmaps
  \/ HieradataOverrides
  \/ StackVstateDropin

ComposeSpec == ComposeInit /\ [][ComposeNext]_vars

\* ---------------------------------------------------------------------
\* Properties of the composition.
\* ---------------------------------------------------------------------

\* An absolute path lies below a directory.
IsUnder(path, root) == startswith(path, root \o Slash)

\* The i-th override file as the caller named it, made absolute.
AbsEnvFile(i) == abspath(cwd, environment_files[i])

\* The i-th override file is neither in the checkout nor in the rendered
\* directory.
Outside(i) ==
  ~IsUnder(AbsEnvFile(i), UserTht) /\ ~IsUnder(AbsEnvFile(i), ThtRender)

\* Where a copy of the i-th override file goes.
Destination(i) == join(ThtRender, basename(AbsEnvFile(i)))

\* The files _setup_heat_environments writes into the rendered directory.
GeneratedDestinations ==
  {MapsFilePath, DropinFilePath}
    \cup (IF hieradata_override = "legacy" THEN {HieraFilePath} ELSE {})

\* _normalize_user_templates has returned a list.
Normalized == cpc \notin {"normalize", "off"} /\ cerr # "collision"

Returned == cpc = "returned"

\* The entries of the returned list that come before the caller's.
SystemPart ==
  SubSeq(environments, 1, Len(environments) - Len(user_environments))

\* The entries of the returned list from the caller's first one on.
UserPart ==
  SubSeq(environments, Len(environments) - Len(user_environments) + 1,
         Len(environments))

\* What _normalize_user_templates makes of one path alone.
Rewritten(path) ==
  normalize_user_templates(templates, ThtRender, <<path>>, cwd, CopiedTree,
                           <<>>).environments[1]

\* C21: a copy of a caller's override file in the rendered directory is
\* never replaced by a file the composition generates; a caller's file
\* named like a generated file makes the composition raise instead.
C21_NoSilentReplacement ==
  [][\A path \in DOMAIN fs :
       fs[path].origin = "caller" => fs'[path] = fs[path]]_vars

\* C22: the returned list ends with the caller's files, in the order they
\* were given, and everything before them is a file of the system.
C22_SystemBeforeCaller ==
  Returned =>
    /\ Len(user_environments) = Len(environment_files)
    /\ UserPart = [i \in 1..Len(environment_files) |->
                     Rewritten(environment_files[i])]
    /\ \A i \in 1..Len(SystemPart) :
         SystemPart[i] \in
           {rel_or_abs_path(ThtRender, PlanEnvironments[j]) :
              j \in 1..Len(PlanEnvironments)}
           \cup {PwFilePath, StaticEnvironments[1], StaticEnvironments[2],
                 MapsFilePath, HieraFilePath, HieradataFile, DropinFilePath}

C22_Witness ==
  /\ Returned
  /\ Len(environment_files) = 2
  /\ UserPart[1] # UserPart[2]
  /\ UserPart[1] = Rewritten(join(HomeDir, <<"a">>))

\* C23: once the override paths are rewritten there is one result for every
\* path given and every result is a path below the rendered directory.
C23_EveryPathLandsInTree ==
  Normalized =>
    /\ Len(user_environments) = Len(environment_files)
    /\ \A i \in 1..Len(user_environments) :
         IsUnder(user_environments[i], ThtRender)

\* The i-th override file has to be copied to a name that is taken, by a
\* file of the checkout or by the copy of an earlier override file.
Clash(i) ==
  /\ Outside(i)
  /\ \/ Destination(i) \in DOMAIN CopiedTree
     \/ \E j \in 1..(i - 1) : Outside(j) /\ Destination(j) = Destination(i)

FirstClash ==
  CHOOSE i \in 1..Len(environment_files) :
    Clash(i) /\ \A j \in 1..(i - 1) : ~Clash(j)

\* What is at the destination of the first clashing file before it is
\* looked at.
Occupant(i) ==
  IF Destination(i) \in DOMAIN CopiedTree THEN FromTemplates
  ELSE CopyOf(AbsEnvFile(CHOOSE j \in 1..(i - 1) :
                Outside(j) /\ Destination(j) = Destination(i)))

\* C24: when an override file from outside has to be copied to a name
\* that is taken, the rewriting raises and the file that was there stays.
C24_CopyClashIsFatal ==
  (cpc \notin {"normalize", "off"}
     /\ \E i \in 1..Len(environment_files) : Clash(i))
  => /\ cpc = "raised"
     /\ cerr = "collision"
     /\ fs[Destination(FirstClash)] = Occupant(FirstClash)

C24_Witness ==
  /\ cpc = "raised"
  /\ cerr = "collision"
  /\ Len(environment_files) = 2
  /\ Clash(2)
  /\ Destination(2) \notin DOMAIN CopiedTree
  /\ AbsEnvFile(1) # AbsEnvFile(2)

\* Place of a path in the system's part of the returned list, 0 if it is
\* not there.
Place(path) ==
  IF \E i \in 1..Len(SystemPart) : SystemPart[i] = path
  THEN CHOOSE i \in 1..Len(SystemPart) : SystemPart[i] = path
  ELSE 0

\* The entry --hieradata-override adds to the list.
HieraEntry ==
  IF hieradata_override = "legacy" THEN HieraFilePath ELSE HieradataFile

C26_CompositionFailureStopsRun ==
  (obs.templatesMissing \/ obs.process_rc > 0) =>
    /\ obs.submitted = 0
    /\ obs.upgrade = "notrun"
    /\ obs.deploy = "notrun"
    /\ pc \notin {"mark", "launch", "wait", "compose", "submit", "poll",
                  "download", "kill", "upgrade", "ansible"}

C26_Witness ==
  /\ obs.process_rc > 0
  /\ ~obs.templatesMissing
  /\ Done
  /\ Failed

\* ---------------------------------------------------------------------
\* _update_passwords_env and the two password files of the output
\* directory.
\* ---------------------------------------------------------------------

\* A call in progress or over, as kept in merges.
CallRecord(structured, conf, arg) ==
  [before |-> structured, legacy_before |-> conf, passwords |-> arg,
   pw |-> NoParams, conf |-> NoOptions, chmods |-> 0,
   chmod_failed |-> FALSE, result |-> "running"]

\* Options an undercloud-passwords.conf can hold before the first call.
InitialOptions == LegacyKeys \ {"undercloud_extra_password"}

\* Parameters a passwords yaml file can hold before the first call.
InitialParams == ParamKeys \ {"RabbitCookie"}

\* The arguments of the model: no passwords, or defaults for two keys.
PasswordArgs ==
  {NoParams,
   [k \in ParamKeys |->
      IF k \in {"RabbitPassword", "ExtraPassword"}
      THEN Value("default", k) ELSE Unset]}

SecretInit ==
  /\ RunAtCompose
  /\ ComposerOff
  /\ PairOff
  /\ PreflightOff
  /\ UpdateOff
  /\ pw_mode \in Modes \cup {"absent"}
  /\ \E set \in SUBSET InitialParams :
       /\ pw_mode = "absent" => set = {}
       /\ pw_file = [k \in ParamKeys |->
                       IF k \in set THEN Value("structured", k) ELSE Unset]
  /\ undercloud_pw_mode \in Modes \cup {"absent"}
  /\ \E set \in SUBSET InitialOptions :
       /\ undercloud_pw_mode = "absent" => set = {}
       /\ ~ {"undercloud_db_password",
             "undercloud_mysql_root_password"} \subseteq set
       /\ undercloud_pw_file = [k \in LegacyKeys |->
                                  IF k \in set THEN Value("legacy", k)
                                  ELSE Unset]
  /\ passwords = NoParams
  /\ spc = "idle"
  /\ merges = <<>>

\* Lines 247-256: config.get raises when the file has no
\* undercloud_rpc_password; only then is the rabbit password kept as the
\* rpc password.
SaveRabbitAsRpc(conf) == ~IsSet(conf["undercloud_rpc_password"])

\* Lines 236-268: the [auth] options as heat parameters.
legacy_env(conf) ==
  [p \in ParamKeys |->
     LET named == {k \in LegacyKeys : IsSet(conf[k]) /\ LegacyToParam(k) = p}
     IN  IF named # {} THEN conf[CHOOSE k \in named : TRUE]
         ELSE IF /\ p = "RpcPassword"
                 /\ IsSet(conf["undercloud_rabbit_password"])
                 /\ SaveRabbitAsRpc(conf)
              THEN conf["undercloud_rabbit_password"]
              ELSE Unset]

\* The parameters tripleo-common generates passwords for.
GeneratedNames ==
  {"RabbitPassword", "RpcPassword", "MysqlRootPassword", "RabbitCookie"}

\* generate_passwords that makes up every value anew.
generate_passwords_Anew(stack_env, n) ==
  [p \in ParamKeys |-> IF p \in GeneratedNames THEN Fresh(p, n) ELSE Unset]

\* password_utils.generate_passwords(stack_env=stack_env), line 274: a value
\* for each of its names, the one of stack_env where there is one.
generate_passwords(stack_env, n) ==
  [p \in ParamKeys |->
     IF p \notin GeneratedNames THEN Unset
     ELSE IF IsSet(stack_env[p]) THEN stack_env[p] ELSE Fresh(p, n)]

\* dict.update
update(d, e) == [p \in ParamKeys |-> IF IsSet(e[p]) THEN e[p] ELSE d[p]]

\* Lines 280-285: the defaults of the caller, for keys that are not there.
with_defaults(d, defaults) ==
  [p \in ParamKeys |-> IF IsSet(d[p]) THEN d[p] ELSE defaults[p]]

\* Lines 270-285: parameter_defaults as it is written to the yaml file.
parameter_defaults(structured, conf, defaults, n) ==
  with_defaults(
    update(update(structured, generate_passwords(structured, n)),
           legacy_env(conf)),
    defaults)

\* Lines 296-305: the [auth] options written from parameter_defaults.
auth_options(d) ==
  [k \in LegacyKeys |->
     LET named == {p \in ParamKeys :
                     IsSet(d[p]) /\ IsSecretName(p) /\ ParamToLegacy(p) = k}
     IN  IF named = {} THEN Unset ELSE d[CHOOSE p \in named : TRUE]]

\* The last entry of merges, changed.
Logged(field, value) ==
  [merges EXCEPT ![Len(merges)] = [@ EXCEPT ![field] = value]]

\* _update_passwords_env is called, by this run or by a later one.
CallUpdatePasswordsEnv ==
  /\ spc \in {"idle", "returned", "raised"}
  /\ Len(merges) < MaxMerges
  /\ \E arg \in PasswordArgs :
       /\ passwords' = arg
       /\ merges' = Append(merges,
                           CallRecord(pw_file, undercloud_pw_file, arg))
  /\ spc' = "merge"
  /\ UNCHANGED <<run, composerVars, laterVars, pw_file, undercloud_pw_file, pw_mode,
                 undercloud_pw_mode>>

\* Lines 232-290: both files are read, the values are merged and the yaml
\* file is written; a new file gets the bits the umask leaves.
WritePwFile ==
  /\ spc = "merge"
  /\ pw_file' = parameter_defaults(pw_file, undercloud_pw_file, passwords,
                                   Len(merges))
  /\ \E created \in Modes :
       pw_mode' = IF pw_mode = "absent" THEN created ELSE pw_mode
  /\ spc' = "chmod_pw"
  /\ UNCHANGED <<run, composerVars, laterVars, undercloud_pw_file, undercloud_pw_mode,
                 passwords, merges>>

\* ChmodPwFile going on when os.chmod raised.
ChmodPwFile_IgnoreFailure ==
  /\ spc = "chmod_pw"
  /\ \E ok \in BOOLEAN :
       /\ pw_mode' = IF ok THEN "0600" ELSE pw_mode
       /\ spc' = "write_conf"
       /\ merges' = Logged("chmods", merges[Len(merges)].chmods + 1)
  /\ UNCHANGED <<run, composerVars, laterVars, pw_file, undercloud_pw_file,
                 undercloud_pw_mode, passwords>>

\* Line 293: os.chmod(pw_file, 0o600); what it raises leaves the function.
ChmodPwFile ==
  /\ spc = "chmod_pw"
  /\ \E ok \in BOOLEAN :
       IF ok
       THEN /\ pw_mode' = "0600"
            /\ spc' = "write_conf"
            /\ merges' = Logged("chmods", merges[Len(merges)].chmods + 1)
       ELSE /\ spc' = "raised"
            /\ merges' = [merges EXCEPT ![Len(merges)] =
                            [@ EXCEPT !.chmods = @ + 1,
                                      !.chmod_failed = TRUE,
                                      !.result = "raised"]]
            /\ UNCHANGED pw_mode
  /\ UNCHANGED <<run, composerVars, laterVars, pw_file, undercloud_pw_file,
                 undercloud_pw_mode, passwords>>

\* Lines 296-305: the conf file is written from what the yaml file got.
WriteUndercloudPwFile ==
  /\ spc = "write_conf"
  /\ undercloud_pw_file' = auth_options(pw_file)
  /\ \E created \in Modes :
       undercloud_pw_mode' =
         IF undercloud_pw_mode = "absent" THEN created
         ELSE undercloud_pw_mode
  /\ spc' = "chmod_conf"
  /\ UNCHANGED <<run, composerVars, laterVars, pw_file, pw_mode, passwords, merges>>

\* Lines 306-308: os.chmod(undercloud_pw_file, 0o600) and the return.
ChmodUndercloudPwFile ==
  /\ spc = "chmod_conf"
  /\ \E ok \in BOOLEAN :
       IF ok
       THEN /\ undercloud_pw_mode' = "0600"
            /\ spc' = "returned"
            /\ merges' = [merges EXCEPT ![Len(merges)] =
                            [@ EXCEPT !.chmods = @ + 1,
                                      !.pw = pw_file,
                                      !.conf = undercloud_pw_file,
                                      !.result = "returned"]]
       ELSE /\ spc' = "raised"
            /\ merges' = [merges EXCEPT ![Len(merges)] =
                            [@ EXCEPT !.chmods = @ + 1,
                                      !.chmod_failed = TRUE,
                                      !.result = "raised"]]
            /\ UNCHANGED undercloud_pw_mode
  /\ UNCHANGED <<run, composerVars, laterVars, pw_file, undercloud_pw_file, pw_mode,
                 passwords>>

SecretNext ==
  \/ CallUpdatePasswordsEnv
  \/ WritePwFile
  \/ ChmodPwFile
  \/ WriteUndercloudPwFile
  \/ ChmodUndercloudPwFile

SecretSpec == SecretInit /\ [][SecretNext]_vars

\* ---------------------------------------------------------------------
\* Properties of the password files.
\* ---------------------------------------------------------------------

\* The calls that returned.
Completed == {i \in 1..Len(merges) : merges[i].result = "returned"}

\* C27: a key the yaml file holds before a call has the same value after
\* the call.
C27_StructuredValueKept ==
  \A i \in Completed :
    \A p \in ParamKeys :
      IsSet(merges[i].before[p]) => merges[i].pw[p] = merges[i].before[p]

\* The second of two calls in a row brings no defaults the first one did
\* not have.
NoNewDefaults(i) ==
  merges[i + 1].passwords \in {NoParams, merges[i].passwords}

\* C28: of two calls in a row that returned, the second one, given no new
\* defaults, leaves both files as the first one left them.
C28_MergeIdempotent ==
  \A i \in Completed :
    (i + 1 \in Completed /\ NoNewDefaults(i)) =>
      /\ merges[i + 1].pw = merges[i].pw
      /\ merges[i + 1].conf = merges[i].conf

C28_Witness ==
  /\ Completed = {1, 2}
  /\ NoNewDefaults(1)
  /\ IsSet(merges[1].legacy_before["undercloud_rabbit_password"])
  /\ ~IsSet(merges[1].legacy_before["undercloud_rpc_password"])
  /\ IsSet(merges[1].before["RabbitPassword"])
  /\ merges[2].pw["MysqlRootPassword"] = Fresh("MysqlRootPassword", 1)

\* The rabbit password of the conf file a call started from.
RabbitBefore(i) == merges[i].legacy_before["undercloud_rabbit_password"]

\* C29: an RPC password that one of the two files holds before a call is
\* not replaced by the rabbit password.
C29_RpcNotReplacedByRabbit ==
  \A i \in Completed :
    (\/ IsSet(merges[i].before["RpcPassword"])
     \/ IsSet(merges[i].legacy_before["undercloud_rpc_password"]))
    => \/ merges[i].pw["RpcPassword"] # RabbitBefore(i)
       \/ merges[i].before["RpcPassword"] = RabbitBefore(i)
       \/ merges[i].legacy_before["undercloud_rpc_password"]
            = RabbitBefore(i)

\* C30: when a call has returned both files have mode 0600 and each was
\* chmod'ed once; a chmod that fails ends the call with its exception.
C30_OwnerOnlyAfterMerge ==
  /\ spc = "returned" =>
       /\ pw_mode = "0600"
       /\ undercloud_pw_mode = "0600"
  /\ \A i \in 1..Len(merges) :
       /\ merges[i].chmods <= 2
       /\ merges[i].result = "returned" =>
            merges[i].chmods = 2 /\ ~merges[i].chmod_failed
       /\ merges[i].chmod_failed =>
            /\ merges[i].result = "raised"
            /\ i = Len(merges) => spc \in {"raised", "merge"}

C30_Witness ==
  /\ spc = "returned"
  /\ Len(merges) = 2
  /\ merges[1].chmod_failed
  /\ merges[1].chmods = 1
  /\ pw_mode = "0600"

\* C38: while a merge is between writing a secret file and returning, the
\* file it has written is owner-only; so a file is never readable by others
\* while it holds the secret values, the first time it is created included.
C38_NeverWiderThanOwnerOnly ==
  /\ (spc = "chmod_pw" /\ \E k \in ParamKeys : IsSet(pw_file[k]))
       => pw_mode = "0600"
  /\ (spc = "chmod_conf" /\ \E k \in LegacyKeys : IsSet(undercloud_pw_file[k]))
       => undercloud_pw_mode = "0600"

\* ---------------------------------------------------------------------
\* Two commands at the same time.  Each is a process of its own with its
\* own self.tht_render; the disk is what they share.  A command goes through
\* _create_working_dirs, _populate_templates_dir, _update_passwords_env, the
\* deployment that reads what these produced, and _cleanup_working_dirs.
\* ---------------------------------------------------------------------

\* The output directories a command may be given.
PairDirs == {OutputDir, OtherDir}

PairArgs == [stack : Names, output_dir : PairDirs, cleanup : BOOLEAN]

PairInit ==
  /\ RunIdle
  /\ ComposerOff
  /\ SecretsOff
  /\ PreflightOff
  /\ UpdateOff
  /\ pargs \in [Runs -> PairArgs]
  /\ ppc = [r \in Runs |-> "create"]
  /\ trees = [d \in PairDirs |-> NoRun]
  /\ pwfiles = [d \in PairDirs |-> NoRun]

\* Lines 174-181: the rendered-template directory has a static name under
\* the output directory and is cleared, whoever made it.  (The ansible
\* directory comes from mkdtemp and is the command's own.)
EachCreateWorkingDirs ==
  \E r \in Runs :
    /\ ppc[r] = "create"
    /\ trees' = [trees EXCEPT ![pargs[r].output_dir] = NoRun]
    /\ ppc' = [ppc EXCEPT ![r] = "populate"]
    /\ UNCHANGED <<run, composerVars, secretVars, preflightVars, updateVars,
                   pargs, pwfiles>>

\* Lines 195-201: NotFound without the source templates; the copy is made
\* only if the directory does not exist.
EachPopulateTemplatesDir ==
  \E r \in Runs, source_exists \in BOOLEAN :
    /\ ppc[r] = "populate"
    /\ IF ~source_exists
       THEN /\ ppc' = [ppc EXCEPT ![r] = "done"]
            /\ UNCHANGED trees
       ELSE /\ ppc' = [ppc EXCEPT ![r] = "passwords"]
            /\ trees' = IF trees[pargs[r].output_dir] = NoRun
                        THEN [trees EXCEPT ![pargs[r].output_dir] = r]
                        ELSE trees
    /\ UNCHANGED <<run, composerVars, secretVars, preflightVars, updateVars,
                   pargs, pwfiles>>

\* Lines 228-308: both password files are static names under output_dir
\* and are written anew by the command.
EachUpdatePasswordsEnv ==
  \E r \in Runs :
    /\ ppc[r] = "passwords"
    /\ pwfiles' = [pwfiles EXCEPT ![pargs[r].output_dir] = r]
    /\ ppc' = [ppc EXCEPT ![r] = "deploy"]
    /\ UNCHANGED <<run, composerVars, secretVars, preflightVars, updateVars,
                   pargs, trees>>

\* Lines 936-960: the engine and the playbooks read the rendered templates
\* and the password file.
EachDeploy ==
  \E r \in Runs :
    /\ ppc[r] = "deploy"
    /\ ppc' = [ppc EXCEPT ![r] = "cleanup"]
    /\ UNCHANGED <<run, composerVars, secretVars, preflightVars, updateVars,
                   pargs, trees, pwfiles>>

\* Lines 208-210: with --cleanup the rendered-template directory is removed
\* if it exists, whoever made it.
EachCleanupWorkingDirs ==
  \E r \in Runs :
    /\ ppc[r] = "cleanup"
    /\ trees' = IF pargs[r].cleanup
                THEN [trees EXCEPT ![pargs[r].output_dir] = NoRun]
                ELSE trees
    /\ ppc' = [ppc EXCEPT ![r] = "done"]
    /\ UNCHANGED <<run, composerVars, secretVars, preflightVars, updateVars,
                   pargs, pwfiles>>

PairNext ==
  \/ EachCreateWorkingDirs
  \/ EachPopulateTemplatesDir
  \/ EachUpdatePasswordsEnv
  \/ EachDeploy
  \/ EachCleanupWorkingDirs

PairSpec == PairInit /\ [][PairNext]_vars

\* The command has populated the rendered-template directory and still
\* works with it.
UsesTree(r) == ppc[r] \in {"passwords", "deploy", "cleanup"}

\* The command has written the password files and still works with them.
UsesPwFiles(r) == ppc[r] \in {"deploy", "cleanup"}

\* C37: of two commands for different stack names, each finds the
\* rendered-template directory it populated and the password files it wrote
\* as it left them for as long as it works with them, also when the other
\* command uses the same output directory.
C37_NoInterference ==
  \A r \in Runs :
    pargs[1].stack # pargs[2].stack =>
      /\ UsesTree(r) => trees[pargs[r].output_dir] = r
      /\ UsesPwFiles(r) => pwfiles[pargs[r].output_dir] = r

\* ---------------------------------------------------------------------
\* undercloud_preflight.check: the validators, called one after the other
\* inside one try statement, and its three except clauses.
\* ---------------------------------------------------------------------

\* How many subnets the configuration names at most.
MaxSubnets == 2

SubnetNames == <<"ctlplane-subnet", "leaf1", "leaf2", "leaf3">>

\* CONF.subnets: the first n subnet names.
SubnetLists == {SubSeq(SubnetNames, 1, n) : n \in 0..MaxSubnets}

\* What a call of a validator does: it returns, or it raises one of the
\* exceptions check names, or any other exception.
Outcomes == {"pass", "KeyError", "FailedValidation", "RuntimeError", "Error"}

\* A position in check: the validator to call next (subnet is the index of
\* the loop, 0 outside it) or the exception in flight.
At(name, i) == [at |-> name, subnet |-> i, exc |-> "none"]

PreflightInit ==
  /\ RunIdle
  /\ ComposerOff
  /\ SecretsOff
  /\ PairOff
  /\ UpdateOff
  /\ CONF \in [custom_env_files : BOOLEAN, subnets : SubnetLists]
  /\ vpc = At("_check_hostname", 0)
  /\ validated = <<>>
  /\ exit_status = "none"

\* Lines 448-455: what follows the loop over CONF.subnets.
AfterSubnets == At("_validate_ips", 0)

\* Lines 440-455: the statement that follows a validator that returned.
Following(p) ==
  CASE p.at = "_check_hostname" -> At("_check_memory", 0)
    [] p.at = "_check_memory" -> At("_check_sysctl", 0)
    [] p.at = "_check_sysctl" -> At("_validate_passwords_file", 0)
    [] p.at = "_validate_passwords_file" ->
         IF CONF.custom_env_files THEN At("_validate_env_files_paths", 0)
         ELSE At("_validate_value_formats", 0)
    [] p.at = "_validate_env_files_paths" -> At("_validate_value_formats", 0)
    [] p.at = "_validate_value_formats" ->
         IF Len(CONF.subnets) > 0 THEN At("_validate_in_cidr", 1)
         ELSE AfterSubnets
    [] p.at = "_validate_in_cidr" -> At("_validate_dhcp_range", p.subnet)
    [] p.at = "_validate_dhcp_range" ->
         At("_validate_inspection_range", p.subnet)
    [] p.at = "_validate_inspection_range" ->
         At("_validate_no_overlap", p.subnet)
    [] p.at = "_validate_no_overlap" ->
         IF p.subnet < Len(CONF.subnets)
         THEN At("_validate_in_cidr", p.subnet + 1)
         ELSE AfterSubnets
    [] p.at = "_validate_ips" -> At("_validate_interface_exists", 0)
    [] p.at = "_validate_interface_exists" -> At("_validate_no_ip_change", 0)
    [] p.at = "_validate_no_ip_change" -> At("return", 0)

\* The positions that are calls of a validator.
AtValidator == vpc.at \notin {"return", "except", "done"}

\* The record of one call.
Called(p, o) == [validator |-> p.at, subnet |-> p.subnet, outcome |-> o]

\* CallValidator going on with the next validator when one raised.
CallValidator_GoOn ==
  /\ AtValidator
  /\ \E o \in Outcomes :
       /\ validated' = Append(validated, Called(vpc, o))
       /\ vpc' = Following(vpc)
  /\ UNCHANGED <<run, composerVars, secretVars, pairVars, updateVars,
                 CONF, exit_status>>

\* Lines 438-455: the next validator is called; what it raises leaves the
\* try block.
CallValidator ==
  /\ AtValidator
  /\ \E o \in Outcomes :
       /\ validated' = Append(validated, Called(vpc, o))
       /\ vpc' = IF o = "pass" THEN Following(vpc)
                 ELSE [at |-> "except", subnet |-> 0, exc |-> o]
  /\ UNCHANGED <<run, composerVars, secretVars, pairVars, updateVars,
                 CONF, exit_status>>

\* The end of an except clause: sys.exit(1).
SysExit ==
  /\ vpc' = At("done", 0)
  /\ exit_status' = "1"
  /\ UNCHANGED <<run, composerVars, secretVars, pairVars, updateVars,
                 CONF, validated>>

\* Lines 456-461.
ExceptKeyError ==
  /\ vpc.at = "except" /\ vpc.exc = "KeyError"
  /\ SysExit

\* Lines 462-467.
ExceptFailedValidation ==
  /\ vpc.at = "except" /\ vpc.exc = "FailedValidation"
  /\ SysExit

\* Lines 468-473.
ExceptRuntimeError ==
  /\ vpc.at = "except" /\ vpc.exc = "RuntimeError"
  /\ SysExit

\* An exception no except clause names leaves check.
Uncaught ==
  /\ vpc.at = "except"
  /\ vpc.exc \notin {"KeyError", "FailedValidation", "RuntimeError"}
  /\ vpc' = At("done", 0)
  /\ exit_status' = "raised"
  /\ UNCHANGED <<run, composerVars, secretVars, pairVars, updateVars,
                 CONF, validated>>

\* The end of the try block: check returns.
CheckReturns ==
  /\ vpc.at = "return"
  /\ vpc' = At("done", 0)
  /\ exit_status' = "returned"
  /\ UNCHANGED <<run, composerVars, secretVars, pairVars, updateVars,
                 CONF, validated>>

PreflightNext ==
  \/ CallValidator
  \/ ExceptKeyError
  \/ ExceptFailedValidation
  \/ ExceptRuntimeError
  \/ Uncaught
  \/ CheckReturns

PreflightSpec == PreflightInit /\ [][PreflightNext]_vars

\* The four validators of one subnet.
OfSubnet(i) ==
  << <<"_validate_in_cidr", i>>, <<"_validate_dhcp_range", i>>,
     <<"_validate_inspection_range", i>>, <<"_validate_no_overlap", i>> >>

RECURSIVE OfSubnets(_, _)
OfSubnets(i, n) == IF i > n THEN <<>> ELSE OfSubnet(i) \o OfSubnets(i + 1, n)

\* The order in which a configuration has its validators called.
Schedule(conf) ==
  << <<"_check_hostname", 0>>, <<"_check_memory", 0>>,
     <<"_check_sysctl", 0>>, <<"_validate_passwords_file", 0>> >>
  \o (IF conf.custom_env_files THEN << <<"_validate_env_files_paths", 0>> >>
      ELSE <<>>)
  \o << <<"_validate_value_formats", 0>> >>
  \o OfSubnets(1, Len(conf.subnets))
  \o << <<"_validate_ips", 0>>, <<"_validate_interface_exists", 0>>,
        <<"_validate_no_ip_change", 0>> >>

\* The calls made so far, as entries of a schedule.
CallsMade == [i \in 1..Len(validated) |->
                <<validated[i].validator, validated[i].subnet>>]

\* A validator raised one of the three exceptions check catches.
CaughtFailure ==
  /\ validated # <<>>
  /\ validated[Len(validated)].outcome
       \in {"KeyError", "FailedValidation", "RuntimeError"}

\* C39: the validators are called in the fixed order of the configuration's
\* schedule; a call is made only if every earlier one passed; after a
\* validator raised FailedValidation, RuntimeError or KeyError check ends
\* with exit status 1; check returns only after the whole schedule passed.
C39_FirstFailureExits ==
  /\ Len(validated) <= Len(Schedule(CONF))
  /\ CallsMade = SubSeq(Schedule(CONF), 1, Len(validated))
  /\ \A i \in 1..(Len(validated) - 1) : validated[i].outcome = "pass"
  /\ CaughtFailure => vpc.at \in {"except", "done"}
  /\ (CaughtFailure /\ vpc.at = "done") => exit_status = "1"
  /\ exit_status = "1" => CaughtFailure
  /\ exit_status = "returned" =>
       /\ CallsMade = Schedule(CONF)
       /\ \A i \in 1..Len(validated) : validated[i].outcome = "pass"

\* A failure in the loop over the subnets, at the second subnet.
C39_Witness ==
  /\ exit_status = "1"
  /\ CONF.custom_env_files
  /\ Len(validated) = 12
  /\ validated[12].validator = "_validate_dhcp_range"
  /\ validated[12].subnet = 2
  /\ validated[12].outcome = "FailedValidation"

\* ---------------------------------------------------------------------
\* UpdatePrepare.take_action (overcloud_update.py): the stack and the
\* registry are looked up, parsed_args is adjusted, the inherited deploy
\* action runs, then the package update and the config download.
\* ---------------------------------------------------------------------

\* How many environment files the caller names at most.
MaxUserEnvs == 2

\* An environment file: the directory it was joined with ("" for a path
\* the caller gave) and its name.
EnvFile(dir, name) == [dir |-> dir, file |-> name]

UserEnvs == <<EnvFile("", "a.yaml"), EnvFile("", "b.yaml"),
              EnvFile("", "c.yaml")>>

\* parsed_args.environment_files: None or an empty list (both <<>>), or the
\* caller's files.
UserEnvLists == {SubSeq(UserEnvs, 1, n) : n \in 0..MaxUserEnvs}

\* constants.TRIPLEO_HEAT_TEMPLATES and constants.UPDATE_PREPARE_ENV.
TRIPLEO_HEAT_TEMPLATES == "/usr/share/openstack-tripleo-heat-templates/"
UPDATE_PREPARE_ENV == "environments/lifecycle/update-prepare.yaml"

\* parsed_args as the command line gives it; templates "" is None.
UpdateArgs ==
  [update_plan_only : BOOLEAN, environment_files : UserEnvLists,
   templates : {"", "/custom"}]

UpdateInit ==
  /\ RunIdle
  /\ ComposerOff
  /\ SecretsOff
  /\ PairOff
  /\ PreflightOff
  /\ parsed_args \in UpdateArgs
  /\ upc = "get_stack"
  /\ calls = <<>>
  /\ uexc = "none"

\* One call made by take_action: what was called, parsed_args at that
\* moment and whether the call raised.
Call(name, raised) == [call |-> name, args |-> parsed_args, raised |-> raised]

\* An exception leaves take_action.
Raise(name, e) ==
  /\ calls' = Append(calls, Call(name, TRUE))
  /\ upc' = "done"
  /\ uexc' = e

\* Lines 63-66: get_stack; without a stack, stack.stack_name raises.
GetStack ==
  /\ upc = "get_stack"
  /\ \/ /\ calls' = Append(calls, Call("get_stack", FALSE))
        /\ upc' = "load_registry"
        /\ UNCHANGED uexc
     \/ Raise("get_stack", "AttributeError")
  /\ UNCHANGED <<run, composerVars, secretVars, pairVars, preflightVars,
                 parsed_args>>

\* Lines 67-68: the container registry file is loaded.
LoadContainerRegistry ==
  /\ upc = "load_registry"
  /\ \/ /\ calls' = Append(calls, Call("load_container_registry", FALSE))
        /\ upc' = "prepare"
        /\ UNCHANGED uexc
     \/ Raise("load_container_registry", "Error")
  /\ UNCHANGED <<run, composerVars, secretVars, pairVars, preflightVars,
                 parsed_args>>

\* Lines 78-79: parsed_args.templates or constants.TRIPLEO_HEAT_TEMPLATES.
templates_dir(a) ==
  IF a.templates # "" THEN a.templates ELSE TRIPLEO_HEAT_TEMPLATES

\* oooutils.prepend_environment: the environment joined with the templates
\* directory goes in front of the caller's files.
prepend_environment(files, dir, environment) ==
  <<EnvFile(dir, environment)>> \o files

\* Lines 75-82: plan-only is forced and the update-prepare environment is
\* prepended; prepend_environment raises if the file is not there.
PrepareArgs ==
  /\ upc = "prepare"
  /\ \/ /\ parsed_args' =
             [parsed_args EXCEPT
                !.update_plan_only = TRUE,
                !.environment_files =
                   prepend_environment(parsed_args.environment_files,
                                       templates_dir(parsed_args),
                                       UPDATE_PREPARE_ENV)]
        /\ upc' = "deploy"
        /\ UNCHANGED <<calls, uexc>>
     \/ /\ parsed_args' = [parsed_args EXCEPT !.update_plan_only = TRUE]
        /\ Raise("prepend_environment", "Error")
  /\ UNCHANGED <<run, composerVars, secretVars, pairVars, preflightVars>>

\* DeployTakeAction going on when the inherited action raised.
DeployTakeAction_GoOn ==
  /\ upc = "deploy"
  /\ \E raised \in BOOLEAN :
       /\ calls' = Append(calls, Call("take_action", raised))
       /\ upc' = "update"
       /\ UNCHANGED uexc
  /\ UNCHANGED <<run, composerVars, secretVars, pairVars, preflightVars,
                 parsed_args>>

\* Line 84: super(UpdatePrepare, self).take_action(parsed_args).
DeployTakeAction ==
  /\ upc = "deploy"
  /\ \/ /\ calls' = Append(calls, Call("take_action", FALSE))
        /\ upc' = "update"
        /\ UNCHANGED uexc
     \/ Raise("take_action", "Error")
  /\ UNCHANGED <<run, composerVars, secretVars, pairVars, preflightVars,
                 parsed_args>>

\* Lines 85-87: package_update.update.
PackageUpdate ==
  /\ upc = "update"
  /\ \/ /\ calls' = Append(calls, Call("update", FALSE))
        /\ upc' = "get_config"
        /\ UNCHANGED uexc
     \/ Raise("update", "Error")
  /\ UNCHANGED <<run, composerVars, secretVars, pairVars, preflightVars,
                 parsed_args>>

\* Lines 88-90: package_update.get_config and the end of take_action.
GetConfig ==
  /\ upc = "get_config"
  /\ \/ /\ calls' = Append(calls, Call("get_config", FALSE))
        /\ upc' = "done"
        /\ UNCHANGED uexc
     \/ Raise("get_config", "Error")
  /\ UNCHANGED <<run, composerVars, secretVars, pairVars, preflightVars,
                 parsed_args>>

UpdateNext ==
  \/ GetStack
  \/ LoadContainerRegistry
  \/ PrepareArgs
  \/ DeployTakeAction
  \/ PackageUpdate
  \/ GetConfig

UpdateSpec == UpdateInit /\ [][UpdateNext]_vars

\* Where in calls the call of that name is, 0 if it was not made.
IndexOf(name) ==
  IF \E i \in 1..Len(calls) : calls[i].call = name
  THEN CHOOSE i \in 1..Len(calls) : calls[i].call = name
  ELSE 0

\* C40: the inherited deploy action is called with plan-only forced and
\* with the update-prepare environment of the templates directory in front
\* of the caller's environment files; the package update is called only
\* after the deploy action returned, the config download only after the
\* package update returned, and nothing is called after a call that raised.
C40_UpdateAfterDeploy ==
  LET nDeploy == IndexOf("take_action")
      nUpdate == IndexOf("update")
      nConfig == IndexOf("get_config")
  IN /\ nDeploy # 0 =>
          /\ calls[nDeploy].args.update_plan_only
          /\ calls[nDeploy].args.environment_files =
               <<EnvFile(templates_dir(calls[1].args), UPDATE_PREPARE_ENV)>>
               \o calls[1].args.environment_files
     /\ nUpdate # 0 =>
          /\ nDeploy # 0 /\ nDeploy < nUpdate
          /\ ~calls[nDeploy].raised
     /\ nConfig # 0 =>
          /\ nUpdate # 0 /\ nUpdate < nConfig
          /\ ~calls[nUpdate].raised
     /\ \A i \in 1..(Len(calls) - 1) : ~calls[i].raised
     /\ \A i, j \in 1..Len(calls) : calls[i].call = calls[j].call => i = j

\* The whole sequence ran for a caller who named environment files and
\* asked for no plan-only mode.
C40_Witness ==
  /\ upc = "done"
  /\ uexc = "none"
  /\ IndexOf("get_config") = Len(calls)
  /\ ~calls[1].args.update_plan_only
  /\ Len(calls[1].args.environment_files) = 2
  /\ parsed_args.update_plan_only

====
